---------------------------- MODULE Spec2Model ----------------------------
(***************************************************************************)
(* SafeContentText: a zero-shot text classifier behind two front-ends,     *)
(* the HTTP API (SafeTextContentApi.py) and the command-line tool          *)
(* (bad_text_detector.py).                                                 *)
(*                                                                         *)
(* One request (or one CLI run) is followed from its arrival to its        *)
(* response.  The classifier is an external call: the handler stops at     *)
(* the call (pc = "calling") and goes on when the call returns or raises.  *)
(*                                                                         *)
(* Strings are sequences of characters; the characters "LF" and "CR"       *)
(* stand for the line feed and the carriage return.  Scores and            *)
(* thresholds are counted in tenths: 5 is 0.5, 10 is 1.0.                  *)
(***************************************************************************)
EXTENDS Integers, Sequences, FiniteSets, TLC

VARIABLES
    program,             \* "api": the server process; "cli": one run of the tool
    ENABLE_TEXT_PARAM,   \* configuration: the 'text' query parameter is allowed
    ENABLE_FAST_DETECT,  \* configuration: results carry is_safe
    pc,                  \* "idle", "calling" (inside the classifier call), "done"
    frontend,            \* "none", "post", "get", "file", "cli"
    request,             \* the HTTP request's parameters
    args,                \* the CLI's parsed arguments
    fs,                  \* the file system the CLI run sees
    inputs,              \* CLI: the ordered dict source -> text
    warnings,            \* CLI: the sources logging.warning was called for
    modelLoaded,         \* CLI: pipeline(...) was constructed
    calls,               \* classifier calls made by this request or run
    answer,              \* how the classifier call ended: "none", "returned" (a
                         \* list), "bare" (one record, not in a list), "raised"
    callTexts,           \* the texts of the classifier call
    callLabels,          \* the candidate_labels of the classifier call
    threshold,           \* the threshold handed to the thresholding loop
    fileReads,           \* API: file.read() calls on the upload
    results,             \* API: the DetectResult list of the response
    status,              \* API: the HTTP status (0: none yet)
    detail,              \* API: the error message of the response
    console,             \* CLI: the printed lines
    flagged,             \* CLI: source -> the labels at or over the threshold
    safe,                \* CLI: source -> all scores, for a source with none flagged
    outFile,             \* CLI: the JSON written to --output
    loop,                \* CLI: the thresholding loop's iterations (its locals)
    exit                 \* CLI: how the run ended

vars == <<program, ENABLE_TEXT_PARAM, ENABLE_FAST_DETECT, pc, frontend, request, args, fs,
          inputs, warnings, modelLoaded, calls, answer, callTexts, callLabels, threshold,
          fileReads, results, status, detail, console, flagged, safe, outFile, loop,
          exit>>

apiVars == <<fileReads, results, status, detail>>
cliVars == <<inputs, warnings, modelLoaded, console, flagged, safe, outFile, loop,
             exit>>
config  == <<program, ENABLE_TEXT_PARAM, ENABLE_FAST_DETECT>>

----------------------------------------------------------------------------
(* Bounds of the model *)

MaxTexts == 2      \* texts in a request's list
MaxLen   == 3      \* characters in a file's content
MaxFiles == 2      \* entries of the scanned directory
MaxSeed  == 2      \* classifier answers tried per call

----------------------------------------------------------------------------
(* Program constants *)

ALLOW_GET         == TRUE
ALLOW_POST        == TRUE
ALLOW_FILE_UPLOAD == TRUE

(* The default list with its last label lost *)
DEFAULT_LABELS_Short ==
    << "profanity", "hate speech", "graphic violence", "self-harm",
       "sexual content", "insult" >>

DEFAULT_LABELS ==
    << "profanity", "hate speech", "graphic violence", "self-harm",
       "sexual content", "insult", "terrorism" >>

DefaultThreshold == 5     \* 0.5
ThresholdGe      == 0     \* ge=0.0
ThresholdLe      == 10    \* le=1.0

----------------------------------------------------------------------------
(* Optional values: Python's None against a value *)

Some(v)  == [given |-> TRUE, val |-> v]
NoSeq    == [given |-> FALSE, val |-> <<>>]
NoNum    == [given |-> FALSE, val |-> 0]

Range(s) == {s[i] : i \in DOMAIN s}

(* Python's truth value of an optional string or list: None and empty are false *)
Truthy(o) == o.given /\ o.val # <<>>

Min(a, b) == IF a <= b THEN a ELSE b

Reverse(s) == [i \in 1..Len(s) |-> s[Len(s) + 1 - i]]

----------------------------------------------------------------------------
(* The inputs tried *)

Chars      == {"a", "LF", "CR"}
Contents   == UNION {[1..n -> Chars] : n \in 0..MaxLen}
Texts      == {<<"a">>, <<"b">>}
TextLists  == UNION {[1..n -> Texts] : n \in 0..MaxTexts}
CustomLabels == <<"spam", "scam">>
Thresholds == {-1, 0, 10, 11}
OptThresholds == {NoNum} \cup {Some(t) : t \in Thresholds}
ContentTypes == {"text/plain", "text/plain; charset=utf-8", "application/json"}

----------------------------------------------------------------------------
(* The classifier: an external call.  It raises, or answers one record    *)
(* {"labels": [...], "scores": [...]} per text, with the candidate labels  *)
(* in some order and a score per label; for a batch of one text it may     *)
(* answer the bare record instead of a list.  Nothing else is assumed.     *)
(* The answers tried: offset a moves the scores of a text through          *)
(* ScoreVals; with b = 0 all labels of a text score alike and come back in *)
(* the order given, with b = 1 the scores differ from label to label and   *)
(* the labels come back in the opposite order.                             *)

ScoreVals == <<0, 5, 10>>

Score(a, b, i, j) == ScoreVals[((a + i + b * j) % Len(ScoreVals)) + 1]

RawRecord(labels, a, b, i) ==
    LET n == Len(labels)
    IN  [labels |-> IF b = 1 THEN Reverse(labels) ELSE labels,
         scores |-> [j \in 1..n |-> Score(a, b, i, IF b = 1 THEN n + 1 - j ELSE j)]]

ClassifierAnswer(texts, labels, a, b, bare) ==
    IF bare
    THEN [isdict |-> TRUE,  val |-> RawRecord(labels, a, b, 1)]
    ELSE [isdict |-> FALSE,
          val |-> [i \in 1..Len(texts) |-> RawRecord(labels, a, b, i)]]

----------------------------------------------------------------------------
(* The thresholding shared by the two front-ends *)

(* A bare record that is not wrapped is lost to the loop *)
AsList_BareDropped(raw) == IF raw.isdict THEN <<>> ELSE raw.val

(* if isinstance(raw, dict): raw = [raw] *)
AsList(raw) == IF raw.isdict THEN <<raw.val>> ELSE raw.val

(* dict(zip(keys, values)): zip stops at the shorter, a repeated key keeps *)
(* its last value                                                          *)
DictZip(ks, vs) ==
    LET n == Min(Len(ks), Len(vs))
    IN  [k \in {ks[i] : i \in 1..n} |->
            vs[CHOOSE i \in 1..n : ks[i] = k /\ \A j \in 1..n : ks[j] = k => j <= i]]

(* The comparison written sc > threshold *)
AtOrOver_Strict(label_scores, th) ==
    [l \in {k \in DOMAIN label_scores : label_scores[k] > th} |-> label_scores[l]]

(* {lbl: sc for lbl, sc in label_scores.items() if sc >= threshold} *)
AtOrOver(label_scores, th) ==
    [l \in {k \in DOMAIN label_scores : label_scores[k] >= th} |-> label_scores[l]]

(* One DetectResult of classify_texts *)
DetectResult(text, res, th) ==
    LET label_scores == DictZip(res.labels, res.scores)
        high         == AtOrOver(label_scores, th)
    IN  [text           |-> text,
         scores         |-> label_scores,
         flagged_labels |-> high,
         is_safe        |-> IF ENABLE_FAST_DETECT
                            THEN (IF DOMAIN high = {} THEN "true" ELSE "false")
                            ELSE "none"]

(* for text, res in zip(texts, raw): results.append(DetectResult(...)) *)
ClassifyResults(texts, raw, th) ==
    [i \in 1..Min(Len(texts), Len(raw)) |-> DetectResult(texts[i], raw[i], th)]

----------------------------------------------------------------------------
(* str.splitlines(): a line ends at LF, CR or CR LF; a last line that is   *)
(* empty is not reported                                                   *)

RECURSIVE SplitFrom(_, _, _, _)
SplitFrom(s, i, cur, acc) ==
    IF i > Len(s) THEN (IF cur # <<>> THEN Append(acc, cur) ELSE acc)
    ELSE IF s[i] = "LF" THEN SplitFrom(s, i + 1, <<>>, Append(acc, cur))
    ELSE IF s[i] = "CR"
         THEN SplitFrom(s, IF i < Len(s) /\ s[i + 1] = "LF" THEN i + 2 ELSE i + 1,
                        <<>>, Append(acc, cur))
    ELSE SplitFrom(s, i + 1, Append(cur, s[i]), acc)

splitlines(s) == SplitFrom(s, 1, <<>>, <<>>)

(* The content split whether or not it holds a line feed *)
FileTexts_AlwaysSplit(content) == splitlines(content)

(* content.splitlines() if "\n" in content else [content] *)
FileTexts(content) ==
    IF "LF" \in Range(content) THEN splitlines(content) ELSE <<content>>

(* threshold: ge=0.0, le=1.0 *)
ThresholdValid(t) == ThresholdGe <= t /\ t <= ThresholdLe

----------------------------------------------------------------------------
(* State *)

NoRequest ==
    [texts |-> NoSeq, text |-> NoSeq, labels |-> NoSeq, threshold |-> NoNum,
     content_type |-> "", decodable |-> TRUE, content |-> <<>>]

NoArgs ==
    [text |-> NoSeq, file |-> "none", dir |-> FALSE, labels |-> NoSeq,
     threshold |-> NoNum, output |-> FALSE]

NoFs == [file |-> "missing", fileContent |-> <<>>, isdir |-> FALSE, dir |-> <<>>]

NoOutput == [written |-> FALSE, threshold |-> 0, labels |-> <<>>, results |-> <<>>]

(* The server's options are set at its start; the tool has none of them *)
Init ==
    /\ program \in {"api", "cli"}
    /\ ENABLE_TEXT_PARAM \in BOOLEAN
    /\ ENABLE_FAST_DETECT \in BOOLEAN
    /\ program = "cli" => ENABLE_TEXT_PARAM /\ ENABLE_FAST_DETECT
    /\ pc = "idle"
    /\ frontend = "none"
    /\ request = NoRequest
    /\ args = NoArgs
    /\ fs = NoFs
    /\ inputs = <<>>
    /\ warnings = <<>>
    /\ modelLoaded = FALSE
    /\ calls = 0
    /\ answer = "none"
    /\ callTexts = <<>>
    /\ callLabels = <<>>
    /\ threshold = DefaultThreshold
    /\ fileReads = 0
    /\ results = <<>>
    /\ status = 0
    /\ detail = ""
    /\ console = <<>>
    /\ flagged = <<>>
    /\ safe = <<>>
    /\ outFile = NoOutput
    /\ loop = <<>>
    /\ exit = "running"

----------------------------------------------------------------------------
(* The HTTP API *)

(* classifier(texts, candidate_labels=labels, multi_label=True): the call is made *)
CallClassifier(texts, labels, th) ==
    /\ pc' = "calling"
    /\ calls' = calls + 1
    /\ callTexts' = texts
    /\ callLabels' = labels
    /\ threshold' = th
    /\ answer' = answer

(* An error response: raise HTTPException(...) or a RequestValidationError, *)
(* through the exception handlers                                          *)
ApiError(code, msg) ==
    /\ pc' = "done"
    /\ status' = code
    /\ detail' = msg
    /\ results' = <<>>
    /\ UNCHANGED <<calls, answer, callTexts, callLabels, threshold>>

(* labels or DEFAULT_LABELS *)
OrDefault(labels) == IF labels # <<>> THEN labels ELSE DEFAULT_LABELS

(* A field left out takes the default its declaration names *)
FieldDefault(o, d) == IF o.given THEN o.val ELSE d

(* POST /detect *)
detect_post ==
    /\ program = "api"
    /\ pc = "idle"
    /\ ALLOW_POST
    /\ \E texts \in {NoSeq} \cup {Some(t) : t \in TextLists},
          labels \in {NoSeq, Some(<<>>), Some(CustomLabels)},
          th \in OptThresholds :
          /\ frontend' = "post"
          /\ request' = [NoRequest EXCEPT !.texts = texts, !.labels = labels,
                                          !.threshold = th]
          /\ IF ~texts.given \/ ~ThresholdValid(FieldDefault(th, DefaultThreshold))
             THEN ApiError(422, "Validation Error") /\ UNCHANGED fileReads
             ELSE /\ CallClassifier(texts.val,
                                    OrDefault(FieldDefault(labels, DEFAULT_LABELS)),
                                    FieldDefault(th, DefaultThreshold))
                  /\ UNCHANGED apiVars
    /\ UNCHANGED <<config, args, fs, cliVars>>

(* The two branches in the other order: 'texts' first, then 'text' *)
GetTexts_TextsFirst(text, texts) ==
    IF Truthy(texts)
    THEN [code |-> 0, msg |-> "", list |-> texts.val]
    ELSE IF text.given
    THEN IF ~ENABLE_TEXT_PARAM
         THEN [code |-> 400, msg |-> "Single-text query param 'text' not supported",
               list |-> <<>>]
         ELSE [code |-> 0, msg |-> "", list |-> <<text.val>>]
    ELSE [code |-> 422, msg |-> "Provide either 'texts' or 'text' query parameter",
          list |-> <<>>]

(* detect_get's choice of the texts: 'text' first, then 'texts', else 422 *)
GetTexts(text, texts) ==
    IF text.given
    THEN IF ~ENABLE_TEXT_PARAM
         THEN [code |-> 400, msg |-> "Single-text query param 'text' not supported",
               list |-> <<>>]
         ELSE [code |-> 0, msg |-> "", list |-> <<text.val>>]
    ELSE IF Truthy(texts)
    THEN [code |-> 0, msg |-> "", list |-> texts.val]
    ELSE [code |-> 422, msg |-> "Provide either 'texts' or 'text' query parameter",
          list |-> <<>>]

(* GET /detect *)
detect_get ==
    /\ program = "api"
    /\ pc = "idle"
    /\ ALLOW_GET
    /\ \E texts \in {NoSeq} \cup {Some(t) : t \in TextLists \ {<<>>}},
          text \in {NoSeq, Some(<<>>), Some(<<"a">>)},
          labels \in {NoSeq, Some(CustomLabels)},
          th \in OptThresholds :
          /\ frontend' = "get"
          /\ request' = [NoRequest EXCEPT !.texts = texts, !.text = text,
                                          !.labels = labels, !.threshold = th]
          /\ IF ~ThresholdValid(FieldDefault(th, DefaultThreshold))
             THEN ApiError(422, "Validation Error") /\ UNCHANGED fileReads
             ELSE IF GetTexts(text, texts).code # 0
             THEN ApiError(GetTexts(text, texts).code, GetTexts(text, texts).msg)
                  /\ UNCHANGED fileReads
             ELSE /\ CallClassifier(GetTexts(text, texts).list,
                                    OrDefault(FieldDefault(labels, DEFAULT_LABELS)),
                                    FieldDefault(th, DefaultThreshold))
                  /\ UNCHANGED apiVars
    /\ UNCHANGED <<config, args, fs, cliVars>>

(* The content type compared by its prefix *)
ContentTypeAccepted_Prefix(ctype) ==
    ctype \in {"text/plain", "text/plain; charset=utf-8"}

(* file.content_type != "text/plain" refuses the upload *)
ContentTypeAccepted(ctype) == ctype = "text/plain"

(* POST /detect/file *)
detect_file ==
    /\ program = "api"
    /\ pc = "idle"
    /\ ALLOW_FILE_UPLOAD
    /\ \E ctype \in ContentTypes, decodable \in BOOLEAN, content \in Contents,
          labels \in {NoSeq, Some(CustomLabels)},
          th \in OptThresholds :
          /\ decodable \/ content = <<>>
          /\ frontend' = "file"
          /\ request' = [NoRequest EXCEPT !.labels = labels, !.threshold = th,
                                          !.content_type = ctype,
                                          !.decodable = decodable,
                                          !.content = content]
          /\ IF ~ThresholdValid(FieldDefault(th, DefaultThreshold))
             THEN ApiError(422, "Validation Error") /\ UNCHANGED fileReads
             ELSE IF ~ContentTypeAccepted(ctype)
             THEN ApiError(400, "Only text/plain supported.") /\ UNCHANGED fileReads
             ELSE IF ~decodable
             THEN ApiError(500, "Internal Server Error") /\ fileReads' = fileReads + 1
             ELSE /\ CallClassifier(FileTexts(content),
                                    FieldDefault(labels, DEFAULT_LABELS),
                                    FieldDefault(th, DefaultThreshold))
                  /\ fileReads' = fileReads + 1
                  /\ UNCHANGED <<results, status, detail>>
    /\ UNCHANGED <<config, args, fs, cliVars>>

(* classify_texts, after the classifier answered *)
classify_texts_return ==
    /\ pc = "calling"
    /\ frontend \in {"post", "get", "file"}
    /\ \E a \in 0..MaxSeed, b \in 0..1, bare \in BOOLEAN :
          /\ bare => Len(callTexts) = 1
          /\ LET raw == ClassifierAnswer(callTexts, callLabels, a, b, bare)
             IN  results' = ClassifyResults(callTexts, AsList(raw), threshold)
          /\ answer' = IF bare THEN "bare" ELSE "returned"
    /\ status' = 200
    /\ detail' = ""
    /\ pc' = "done"
    /\ UNCHANGED <<config, frontend, request, args, fs, cliVars, calls, callTexts,
                   callLabels, threshold, fileReads>>

(* The call made again after it raised *)
classify_texts_raise_Retry ==
    /\ pc = "calling"
    /\ frontend \in {"post", "get", "file"}
    /\ calls < 3
    /\ calls' = calls + 1
    /\ UNCHANGED <<config, frontend, request, args, fs, cliVars, pc, answer, callTexts,
                   callLabels, threshold, apiVars>>

(* classify_texts, when the classifier raised: except Exception -> 500 *)
classify_texts_raise ==
    /\ pc = "calling"
    /\ frontend \in {"post", "get", "file"}
    /\ results' = <<>>
    /\ status' = 500
    /\ detail' = "Internal classification error"
    /\ answer' = "raised"
    /\ pc' = "done"
    /\ UNCHANGED <<config, frontend, request, args, fs, cliVars, calls, callTexts,
                   callLabels, threshold, fileReads>>

----------------------------------------------------------------------------
(* The command-line tool *)

(* The key of --text in inputs, "<input>" *)
InputSource == [kind |-> "input", n |-> 0]

(* os.path.join(root, name) of the directory's i-th entry *)
DirSource(i) == [kind |-> "dir", n |-> i]

(* args.file as a key: a path of its own, or the path of the directory's *)
(* first entry                                                           *)
FileSource(file) == IF file = "indir" THEN DirSource(1) ELSE [kind |-> "file", n |-> 0]

(* What the directory's i-th entry holds *)
DirContent(i) == [k \in 1..i |-> "b"]

SoloContents == {<<"a">>, <<"a", "LF", "b">>}
DirListings  == UNION {[1..n -> {"txt", "unreadable_txt", "other"}] : n \in 0..MaxFiles}

(* d[k] = v on a dict, which keeps the order of insertion *)
DictSet(d, k, v) ==
    IF \E i \in DOMAIN d : d[i].source = k
    THEN [i \in DOMAIN d |-> IF d[i].source = k THEN [source |-> k, text |-> v] ELSE d[i]]
    ELSE Append(d, [source |-> k, text |-> v])

(* d.update(e) *)
RECURSIVE DictUpdateFrom(_, _, _)
DictUpdateFrom(d, e, i) ==
    IF i > Len(e) THEN d
    ELSE DictUpdateFrom(DictSet(d, e[i].source, e[i].text), e, i + 1)

DictUpdate(d, e) == DictUpdateFrom(d, e, 1)

(* list(inputs.values()) *)
Values(d) == [i \in DOMAIN d |-> d[i].text]

(* load_texts_from_dir: every .txt entry is opened and read; one that     *)
(* cannot be read is logged as a warning and left out                     *)
RECURSIVE WalkFrom(_, _, _, _)
WalkFrom(entries, i, texts, warned) ==
    IF i > Len(entries) THEN [texts |-> texts, warnings |-> warned]
    ELSE IF entries[i] = "txt"
         THEN WalkFrom(entries, i + 1, DictSet(texts, DirSource(i), DirContent(i)), warned)
    ELSE IF entries[i] = "unreadable_txt"
         THEN WalkFrom(entries, i + 1, texts, Append(warned, DirSource(i)))
    ELSE WalkFrom(entries, i + 1, texts, warned)

(* The try around the whole walk: the first unreadable file ends it *)
RECURSIVE WalkAbort(_, _, _, _)
WalkAbort(entries, i, texts, warned) ==
    IF i > Len(entries) THEN [texts |-> texts, warnings |-> warned]
    ELSE IF entries[i] = "txt"
         THEN WalkAbort(entries, i + 1, DictSet(texts, DirSource(i), DirContent(i)), warned)
    ELSE IF entries[i] = "unreadable_txt"
         THEN [texts |-> texts, warnings |-> Append(warned, DirSource(i))]
    ELSE WalkAbort(entries, i + 1, texts, warned)

load_texts_from_dir_Abort(entries) == WalkAbort(entries, 1, <<>>, <<>>)

load_texts_from_dir(entries) == WalkFrom(entries, 1, <<>>, <<>>)

(* The emptiness check left out *)
NoInputs_Never(ins) == FALSE

(* if not inputs: *)
NoInputs(ins) == ins = <<>>

(* main, "Prepare inputs": how it ends, the inputs collected and the     *)
(* warnings logged                                                       *)
PrepareInputs(a, f) ==
    LET in1 == IF Truthy(a.text) THEN DictSet(<<>>, InputSource, a.text.val) ELSE <<>>
        in2 == IF a.file # "none" THEN DictSet(in1, FileSource(a.file), f.fileContent)
               ELSE in1
        ld  == load_texts_from_dir(f.dir)
        in3 == IF a.dir THEN DictUpdate(in2, ld.texts) ELSE in2
    IN  IF a.file # "none" /\ f.file = "missing"
        THEN [outcome |-> "exit1", inputs |-> in1, warnings |-> <<>>]
        ELSE IF a.file # "none" /\ f.file = "unreadable"
        THEN [outcome |-> "crash", inputs |-> in1, warnings |-> <<>>]
        ELSE IF a.dir /\ ~f.isdir
        THEN [outcome |-> "exit1", inputs |-> in2, warnings |-> <<>>]
        ELSE IF NoInputs(in3)
        THEN [outcome |-> "usage", inputs |-> in3,
              warnings |-> IF a.dir THEN ld.warnings ELSE <<>>]
        ELSE [outcome |-> "ok", inputs |-> in3,
              warnings |-> IF a.dir THEN ld.warnings ELSE <<>>]

(* The file system a run may meet, given its arguments *)
FsFor(a, f) ==
    /\ a.file = "none" => f.file = "missing"
    /\ f.file # "ok" => f.fileContent = <<>>
    /\ a.file = "solo" /\ f.file = "ok" => f.fileContent \in SoloContents
    /\ ~a.dir => ~f.isdir
    /\ ~f.isdir => f.dir = <<>>
    /\ a.file = "indir" =>
          /\ a.dir /\ f.isdir /\ Len(f.dir) >= 1
          /\ f.dir[1] \in {"txt", "unreadable_txt"}
          /\ f.file = (IF f.dir[1] = "txt" THEN "ok" ELSE "unreadable")
          /\ f.file = "ok" => f.fileContent = DirContent(1)

(* main, up to the classifier call *)
cli_main ==
    /\ program = "cli"
    /\ pc = "idle"
    /\ \E text \in {NoSeq, Some(<<>>), Some(<<"a">>)},
          file \in {"none", "solo", "indir"},
          dir \in BOOLEAN,
          labels \in {NoSeq, Some(CustomLabels)},
          th \in OptThresholds,
          output \in BOOLEAN,
          fstate \in {"missing", "unreadable", "ok"},
          fcontent \in {<<>>, DirContent(1)} \cup SoloContents,
          isdir \in BOOLEAN,
          entries \in DirListings :
          LET a == [text |-> text, file |-> file, dir |-> dir, labels |-> labels,
                    threshold |-> th, output |-> output]
              f == [file |-> fstate, fileContent |-> fcontent, isdir |-> isdir,
                    dir |-> entries]
              prep == PrepareInputs(a, f)
          IN  /\ FsFor(a, f)
              /\ frontend' = "cli"
              /\ args' = a
              /\ fs' = f
              /\ inputs' = prep.inputs
              /\ warnings' = prep.warnings
              /\ IF prep.outcome = "ok"
                 THEN /\ modelLoaded' = TRUE
                      /\ CallClassifier(Values(prep.inputs),
                                        FieldDefault(labels, DEFAULT_LABELS),
                                        FieldDefault(th, DefaultThreshold))
                      /\ exit' = exit
                 ELSE /\ pc' = "done"
                      /\ exit' = prep.outcome
                      /\ UNCHANGED <<modelLoaded, calls, answer, callTexts, callLabels,
                                      threshold>>
    /\ UNCHANGED <<config, request, apiVars, console, flagged, safe, outFile, loop>>

(* One iteration of main's loop over zip(inputs.items(), results) *)
LoopStep(item, res, th) ==
    LET label_scores == DictZip(res.labels, res.scores)
    IN  [source |-> item.source, text |-> item.text, label_scores |-> label_scores,
         high |-> AtOrOver(label_scores, th)]

(* if high: *)
IsFlagged(e) == DOMAIN e.high # {}
IsSafe(e)    == ~IsFlagged(e)

CliLoop(ins, raw, th) ==
    [i \in 1..Min(Len(ins), Len(raw)) |-> LoopStep(ins[i], raw[i], th)]

(* out_data of --output *)
OutData(ins, raw, labels, th) ==
    [written |-> TRUE, threshold |-> th, labels |-> labels,
     results |-> [i \in 1..Min(Len(ins), Len(raw)) |->
                    [source |-> ins[i].source,
                     scores |-> DictZip(raw[i].labels, raw[i].scores)]]]

(* main, after detect_bad_content returned *)
cli_return ==
    /\ pc = "calling"
    /\ frontend = "cli"
    /\ \E a \in 0..MaxSeed, b \in 0..1, bare \in BOOLEAN,
          writeOk \in BOOLEAN :
          /\ bare => Len(callTexts) = 1
          /\ ~args.output => writeOk
          /\ LET raw == AsList(ClassifierAnswer(callTexts, callLabels, a, b, bare))
             IN  /\ loop' = CliLoop(inputs, raw, threshold)
                 /\ console' = [i \in DOMAIN loop' |->
                                  [tag |-> IF IsFlagged(loop'[i]) THEN "FLAGGED" ELSE "SAFE",
                                   source |-> loop'[i].source,
                                   labels |-> IF IsFlagged(loop'[i]) THEN loop'[i].high
                                              ELSE <<>>]]
                 /\ flagged' = LET fl == SelectSeq(loop', IsFlagged)
                               IN  [i \in DOMAIN fl |->
                                      [source |-> fl[i].source, labels |-> fl[i].high]]
                 /\ safe' = LET sf == SelectSeq(loop', IsSafe)
                            IN  [i \in DOMAIN sf |->
                                   [source |-> sf[i].source, labels |-> sf[i].label_scores]]
                 /\ outFile' = IF args.output /\ writeOk
                               THEN OutData(inputs, raw, callLabels, threshold)
                               ELSE NoOutput
          /\ answer' = IF bare THEN "bare" ELSE "returned"
    /\ exit' = "ok"
    /\ pc' = "done"
    /\ UNCHANGED <<config, frontend, request, args, fs, apiVars, inputs, warnings,
                   modelLoaded, calls, callTexts, callLabels, threshold>>

(* main, when the classifier raised: nothing catches it *)
cli_raise ==
    /\ pc = "calling"
    /\ frontend = "cli"
    /\ exit' = "crash"
    /\ answer' = "raised"
    /\ pc' = "done"
    /\ UNCHANGED <<config, frontend, request, args, fs, apiVars, inputs, warnings,
                   modelLoaded, calls, callTexts, callLabels, threshold, console,
                   flagged, safe, outFile, loop>>

Next ==
    \/ detect_post
    \/ detect_get
    \/ detect_file
    \/ classify_texts_return
    \/ classify_texts_raise
    \/ cli_main
    \/ cli_return
    \/ cli_raise

Spec == Init /\ [][Next]_vars

----------------------------------------------------------------------------
(* Properties *)

Returned == answer \in {"returned", "bare"}

Api == frontend \in {"post", "get", "file"}
Cli == frontend = "cli"

RequestTexts ==
    IF frontend = "post" THEN request.texts.val
    ELSE IF frontend = "get"
    THEN (IF request.text.given THEN <<request.text.val>> ELSE request.texts.val)
    ELSE callTexts

(* The sources a CLI run collects, in the order it discovers them: --text, *)
(* --file, then the directory's readable .txt entries                       *)
RECURSIVE ReadableFrom(_, _)
ReadableFrom(entries, i) ==
    IF i > Len(entries) THEN <<>>
    ELSE IF entries[i] = "txt" /\ ~(i = 1 /\ args.file = "indir")
    THEN <<DirSource(i)>> \o ReadableFrom(entries, i + 1)
    ELSE ReadableFrom(entries, i + 1)

ExpectedSources ==
    (IF args.text.given /\ args.text.val # <<>> THEN <<InputSource>> ELSE <<>>)
    \o (IF args.file # "none" THEN <<FileSource(args.file)>> ELSE <<>>)
    \o (IF args.dir THEN ReadableFrom(fs.dir, 1) ELSE <<>>)

(* C2: when the classifier call succeeds, one result record per input text, *)
(* the i-th record carrying the i-th input (list order in the API, the      *)
(* order the sources were discovered in for the CLI), also for one text     *)
(* answered by a bare record.                                               *)
C2_OneRecordPerInputInOrder ==
    /\ Api /\ Returned =>
          /\ status = 200
          /\ Len(results) = Len(RequestTexts)
          /\ Len(results) = Len(callTexts)
          /\ \A i \in DOMAIN results :
                results[i].text = RequestTexts[i] /\ results[i].text = callTexts[i]
    /\ Cli /\ Returned =>
          /\ Len(console) = Len(ExpectedSources)
          /\ Len(loop) = Len(inputs)
          /\ Len(flagged) + Len(safe) = Len(inputs)
          /\ \A i \in DOMAIN console :
                /\ console[i].source = ExpectedSources[i]
                /\ loop[i].source = inputs[i].source
                /\ loop[i].text = inputs[i].text
                /\ loop[i].text = callTexts[i]

(* One text answered by a bare record, and a CLI run over several sources *)
C2_Witness ==
    /\ Cli /\ Returned
    /\ Len(console) >= 3
    /\ args.file = "indir"

C2_WitnessBare ==
    /\ Api /\ answer = "bare" /\ Len(callTexts) = 1 /\ Len(results) = 1
    /\ results[1].text = <<"b">>

(* Whether the caller left out both labels and threshold *)
BothOmitted ==
    IF Cli THEN ~args.labels.given /\ ~args.threshold.given
    ELSE ~request.labels.given /\ ~request.threshold.given

(* C3: a request (POST /detect, GET /detect, POST /detect/file) or CLI run  *)
(* that leaves out both labels and threshold calls the classifier with the  *)
(* seven default labels and flags at threshold 0.5.                         *)
C3_Defaults ==
    calls > 0 /\ BothOmitted =>
        /\ callLabels = << "profanity", "hate speech", "graphic violence", "self-harm",
                           "sexual content", "insult", "terrorism" >>
        /\ threshold = 5
        /\ \A i \in DOMAIN results :
              /\ DOMAIN results[i].scores =
                    { "profanity", "hate speech", "graphic violence", "self-harm",
                      "sexual content", "insult", "terrorism" }
              /\ DOMAIN results[i].flagged_labels =
                    {l \in DOMAIN results[i].scores : results[i].scores[l] >= 5}
        /\ \A i \in DOMAIN loop :
              DOMAIN loop[i].high =
                  {l \in DOMAIN loop[i].label_scores : loop[i].label_scores[l] >= 5}

(* A request with both left out, answered *)
C3_Witness ==
    /\ BothOmitted /\ Returned /\ frontend = "get"
    /\ Len(results) = 2
    /\ \E l \in DOMAIN results[1].scores : l \notin DOMAIN results[1].flagged_labels

C3_WitnessCli ==
    /\ BothOmitted /\ Returned /\ Cli /\ Len(loop) >= 1

(* The threshold parameter of the request passes its validation *)
RequestThresholdValid ==
    ~request.threshold.given \/ (0 <= request.threshold.val /\ request.threshold.val <= 10)

(* C4 as stated: GET /detect with neither 'text' nor a non-empty 'texts'    *)
(* ends with 422 and no classifier call; with 'text' while                  *)
(* ENABLE_TEXT_PARAM is off it ends with 400 and no classifier call,        *)
(* whether or not 'texts' is supplied.                                      *)
C4_Original ==
    frontend = "get" =>
        /\ ~request.text.given /\ ~Truthy(request.texts) =>
              pc = "done" /\ status = 422 /\ calls = 0
        /\ request.text.given /\ ~ENABLE_TEXT_PARAM =>
              pc = "done" /\ status = 400 /\ calls = 0

(* C4 amended: the same, the 400 for a request whose threshold parameter is *)
(* valid; one whose threshold is out of range ends with the 422 of the      *)
(* parameter validation, before the handler runs, and calls no classifier.  *)
C4_Amended ==
    frontend = "get" =>
        /\ ~request.text.given /\ ~Truthy(request.texts) =>
              pc = "done" /\ status = 422 /\ calls = 0
        /\ request.text.given /\ ~ENABLE_TEXT_PARAM =>
              /\ pc = "done" /\ calls = 0
              /\ status = IF RequestThresholdValid THEN 400 ELSE 422

(* 'text' and 'texts' both supplied, the option off: 400 *)
C4_Witness ==
    /\ frontend = "get" /\ ~ENABLE_TEXT_PARAM
    /\ request.text.given /\ Truthy(request.texts)
    /\ status = 400 /\ calls = 0

C4_WitnessNeither ==
    /\ frontend = "get" /\ ~request.text.given /\ ~Truthy(request.texts)
    /\ RequestThresholdValid /\ status = 422

(* C5 as stated: an upload whose content type is not exactly 'text/plain'   *)
(* ends with 400 before the file is read and before any classifier call.    *)
C5_Original ==
    frontend = "file" /\ request.content_type # "text/plain" =>
        pc = "done" /\ status = 400 /\ fileReads = 0 /\ calls = 0

(* C5 amended: such an upload ends with a client error, 400 when the        *)
(* threshold field is valid and the 422 of the field validation when it is  *)
(* out of range, with the file not read and the classifier not called.      *)
C5_Amended ==
    frontend = "file" /\ request.content_type # "text/plain" =>
        /\ pc = "done" /\ fileReads = 0 /\ calls = 0
        /\ status = IF RequestThresholdValid THEN 400 ELSE 422

(* An upload of 'text/plain; charset=utf-8' refused with 400 *)
C5_Witness ==
    /\ frontend = "file" /\ request.content_type = "text/plain; charset=utf-8"
    /\ status = 400 /\ detail = "Only text/plain supported." /\ fileReads = 0

(* C6: a CLI run given none of --text, --file, --dir, and any run whose     *)
(* collected inputs are empty, ends with the usage error with the model not *)
(* loaded and the classifier not called; the classifier is only ever called *)
(* with a non-empty collection.                                             *)
C6_UsageError ==
    Cli =>
        /\ ~args.text.given /\ args.file = "none" /\ ~args.dir =>
              pc = "done" /\ exit = "usage" /\ ~modelLoaded /\ calls = 0
        /\ inputs = <<>> /\ exit \notin {"exit1", "crash"} =>
              pc = "done" /\ exit = "usage" /\ ~modelLoaded /\ calls = 0
        /\ calls > 0 \/ modelLoaded => inputs # <<>> /\ callTexts # <<>>

(* A run with no input argument, and one whose directory yields nothing *)
C6_Witness ==
    /\ Cli /\ ~args.text.given /\ args.file = "none" /\ ~args.dir
    /\ exit = "usage"

C6_WitnessEmptyDir ==
    /\ Cli /\ args.dir /\ fs.isdir /\ Len(fs.dir) = 2 /\ exit = "usage"
    /\ args.text.given

(* The run reached the directory scan *)
Scanned ==
    /\ Cli /\ args.dir /\ fs.isdir
    /\ args.file # "none" => fs.file = "ok"

NumUnreadable == Cardinality({i \in DOMAIN fs.dir : fs.dir[i] = "unreadable_txt"})
NumReadable   == Cardinality({i \in DOMAIN fs.dir : fs.dir[i] = "txt"})

(* C7: scanning a directory of which any .txt files cannot be read does not *)
(* fail: inputs holds an entry keyed by path for every readable .txt file   *)
(* and none for an unreadable one, one warning is logged per unreadable     *)
(* file, and the run goes on to classify and report the readable files.     *)
C7_UnreadableSkipped ==
    Scanned =>
        /\ \A i \in DOMAIN fs.dir :
              /\ fs.dir[i] = "txt" =>
                    \E k \in DOMAIN inputs :
                        inputs[k].source = DirSource(i) /\ inputs[k].text = DirContent(i)
              /\ fs.dir[i] # "txt" => \A k \in DOMAIN inputs : inputs[k].source # DirSource(i)
        /\ Len(warnings) = NumUnreadable
        /\ \A i \in DOMAIN fs.dir :
              fs.dir[i] = "unreadable_txt" <=> \E k \in DOMAIN warnings : warnings[k] = DirSource(i)
        /\ exit # "exit1"
        /\ exit = "crash" => answer = "raised"
        /\ NumReadable > 0 => calls = 1
        /\ Returned =>
              \A i \in DOMAIN fs.dir :
                 fs.dir[i] = "txt" => \E k \in DOMAIN console : console[k].source = DirSource(i)

(* An unreadable file before a readable one, and the readable one reported *)
C7_Witness ==
    /\ Scanned /\ Len(fs.dir) = 2
    /\ fs.dir[1] = "unreadable_txt" /\ fs.dir[2] = "txt"
    /\ Returned /\ Len(console) = 1 /\ Len(warnings) = 1

(* C8: the classifier is called at most once per request or run; when the   *)
(* call raises it is not made again, no result record is emitted, and the   *)
(* failure is reported as an internal error: HTTP 500 with a generic        *)
(* message in the API, the uncaught exception in the CLI.                   *)
C8_FailureNotRetried ==
    /\ calls <= 1
    /\ answer # "none" => calls = 1 /\ pc = "done"
    /\ answer = "raised" =>
          /\ results = <<>> /\ console = <<>> /\ loop = <<>>
          /\ flagged = <<>> /\ safe = <<>> /\ outFile = NoOutput
          /\ Api => status = 500 /\ detail = "Internal classification error"
          /\ Cli => exit = "crash"

(* A batch of two texts whose call raised *)
C8_Witness ==
    /\ answer = "raised" /\ Api /\ Len(callTexts) = 2 /\ status = 500

C8_WitnessCli ==
    /\ answer = "raised" /\ Cli /\ Len(callTexts) >= 2

(* The lines of a content, told without splitting it *)
IsBreak(c) == c \in {"LF", "CR"}
NotBreak(c) == ~IsBreak(c)

LineCount(content) ==
    LET n == Len(content)
    IN  Cardinality({i \in 1..n : IsBreak(content[i])})
        - Cardinality({i \in 1..n : i < n /\ content[i] = "CR" /\ content[i + 1] = "LF"})
        + (IF n > 0 /\ ~IsBreak(content[n]) THEN 1 ELSE 0)

RECURSIVE Flatten(_)
Flatten(ss) == IF ss = <<>> THEN <<>> ELSE Head(ss) \o Flatten(Tail(ss))

(* The texts of a CLI run that come from --file *)
CliFileTexts ==
    {inputs[k].text : k \in {j \in DOMAIN inputs : inputs[j].source = FileSource(args.file)}}

C9_WitnessCli ==
    /\ Cli /\ Returned /\ args.file = "solo"
    /\ fs.fileContent = <<"a", "LF", "b">> /\ Len(console) = 1

(* C10: in every entry point the threshold used for flagging is in [0,1]:   *)
(* a threshold given outside [0,1] is refused with an input error before    *)
(* any classifier call and never reaches the comparison with the scores.    *)
C10_ThresholdInRange ==
    /\ calls > 0 => 0 <= threshold /\ threshold <= 10
    /\ LET given == IF Cli THEN args.threshold ELSE request.threshold
       IN  given.given /\ ~(0 <= given.val /\ given.val <= 10) /\ frontend # "none" =>
              pc = "done" /\ calls = 0

====
